---- MODULE Spec2Model ----
(***************************************************************************)
(* State-machine model of bydhvs.BYDHVS (src/bydhvs/__init__.py): the      *)
(* poll() cycle, its transport awaits, the packet validator and the        *)
(* payload decoders, as far as they decide the control flow, the tower     *)
(* list and the cell / temperature sequence lengths.                       *)
(*                                                                         *)
(* An action is one run of the coroutine between two awaits: it starts     *)
(* where an await returns (or raises) and runs the synchronous code up to  *)
(* the next await, the return of poll() or an exception leaving poll().    *)
(*                                                                         *)
(* A received buffer is modelled by the bytes the control flow reads: its  *)
(* length, bytes 0, 1, 2, 5 and 36, whether CRC16 of the whole buffer is   *)
(* 0, and whether bytes 3..21 are ASCII.  Lists of readings are modelled   *)
(* by their lengths.                                                       *)
(***************************************************************************)
EXTENDS Integers, Sequences, FiniteSets, TLC

\* ------------------------------------------------------------------ bounds
\* poll() invocations in one behaviour
MaxPolls == 2
\* tasks that may call poll() on the one instance (SpecConc)
NumTasks == 2
\* bytes of a payload before its checksum (SpecCalls)
MaxPayloadLen == 3

\* ------------------------------------------------------- program constants
MAX_CELLS == 160
MAX_TEMPS == 64

None == 0
Tasks == 1..NumTasks

Min(a, b) == IF a < b THEN a ELSE b
Max(a, b) == IF a > b THEN a ELSE b
Last(s) == s[Len(s)]

\* ----------------------------------------------------------------- buffers
\* Lengths of the device's read responses: 5 (no registers) and 135 (a cell
\* block of 65 registers, long enough for every decoder).
ReadLens == {5, 135}
\* Byte 5: the hardware type in the identity reply (49, 50: LVS, 51: HVS),
\* the battery type in the battery-info reply (1: HVM, 2: HVS, 49 and 51
\* unknown there, as 1 and 2 are no hardware type).
Byte5Values == {1, 2, 49, 51}
\* Byte 36 of the identity reply, towers * 16 + modules: no tower and 1
\* module (fewer than 16 cells with 8 cells per module), 1 tower of 2, 1 tower
\* of 10 (both totals above their maximum), 2 towers of 5 (160 cells).
Byte36Values == {1, 18, 26, 37}

Buffer(len, b0, b1, b2, crc0, ascii, b5, b36) ==
    [len |-> len, b0 |-> b0, b1 |-> b1, b2 |-> b2, crc0 |-> crc0,
     ascii |-> ascii, b5 |-> b5, b36 |-> b36]

\* Well-formed read responses (function code 3, declared length + 5 = length).
ReadResponses ==
    { Buffer(n, 1, 3, n - 5, TRUE, TRUE, x, y) :
        n \in ReadLens, x \in Byte5Values, y \in Byte36Values }

\* A well-formed read response whose serial-number bytes are not ASCII.
NonAsciiResponse == Buffer(135, 1, 3, 130, TRUE, FALSE, 51, 18)

\* The acknowledgement of a function-code-16 write: 01 10 addr addr cnt cnt crc crc.
WriteAck == Buffer(8, 1, 16, 5, TRUE, TRUE, 2, 0)

\* Buffers the validator has to refuse, and the empty read (b'').
EmptyBuffer == Buffer(0, 0, 0, 0, FALSE, TRUE, 0, 0)
BadBuffers ==
    { Buffer(4, 1, 3, 0, TRUE, TRUE, 0, 0),        \* shorter than 5
      Buffer(135, 2, 3, 130, TRUE, TRUE, 2, 18),   \* wrong unit id
      Buffer(135, 1, 4, 130, TRUE, TRUE, 2, 18),   \* unknown function code
      Buffer(100, 1, 3, 130, TRUE, TRUE, 2, 18),   \* truncated read response
      Buffer(135, 1, 3, 130, FALSE, TRUE, 2, 18),  \* checksum mismatch
      Buffer(8, 1, 16, 5, FALSE, TRUE, 2, 0) }     \* corrupted acknowledgement

\* What a device may send: every shape of reply, short or long.
Buffers ==
    ReadResponses \cup {NonAsciiResponse, WriteAck, EmptyBuffer} \cup BadBuffers

\* A device with many towers that answers with full-length read responses
\* (or an empty or a corrupted one): byte 36 is no tower and 2 modules, 4
\* towers of 4 modules (exactly 128 cells with 32 cells per module) or 15
\* towers of 5 modules (160 cells).
ManyTowerBuffers ==
    { Buffer(135, 1, 3, 130, TRUE, TRUE, x, y) :
        x \in {2, 51}, y \in {2, 68, 245} }
        \cup {EmptyBuffer, Buffer(135, 1, 3, 130, FALSE, TRUE, 2, 18)}

\* A device of an unknown battery type (no cell data: the dialogue ends
\* after state 4), for the interleavings of several callers.
ShortDialogueBuffers ==
    { Buffer(135, 1, 3, 130, TRUE, TRUE, 51, 18),
      Buffer(135, 1, 3, 130, FALSE, TRUE, 51, 18) }

\* --------------------------------------------------------------- validator
\* (a validator that checks the declared length for function code 16 too)
check_packet_length_always(data) ==
    IF data.len < 5 THEN FALSE
    ELSE IF data.b0 # 1 THEN FALSE
    ELSE IF data.b2 + 5 # data.len THEN FALSE
    ELSE IF data.b1 # 3 /\ data.b1 # 16 THEN FALSE
    ELSE data.crc0

\* (a validator that does not look at the checksum)
check_packet_no_crc(data) ==
    IF data.len < 5 THEN FALSE
    ELSE IF data.b0 # 1 THEN FALSE
    ELSE IF data.b1 = 3 /\ data.b2 + 5 # data.len THEN FALSE
    ELSE IF data.b1 # 3 /\ data.b1 # 16 THEN FALSE
    ELSE TRUE

\* _check_packet(data)
check_packet(data) ==
    IF data.len < 5 THEN FALSE
    ELSE IF data.b0 # 1 THEN FALSE
    ELSE IF data.b1 = 3 /\ data.b2 + 5 # data.len THEN FALSE
    ELSE IF data.b1 # 3 /\ data.b1 # 16 THEN FALSE
    ELSE data.crc0

\* `if data and self._check_packet(data)`: b'' is falsy.
Accepted(data) == data.len > 0 /\ check_packet(data)

\* Number of elements of the Python slice data[lo:hi] of a buffer of n bytes
\* (lo >= 0; a negative hi counts from the end).
PySliceLen(n, lo, hi) ==
    LET h == IF hi < 0 THEN Max(0, n + hi) ELSE Min(hi, n)
        l == Min(lo, n)
    IN  Max(0, h - l)

\* len(range(k))
RangeLen(k) == Max(0, k)

\* ---------------------------------------------------------- bytes and numbers
\* A buffer as the bytes it holds: a sequence over 0..255; data[i] of the
\* source is At(data, i).
At(data, i) == data[i + 1]

\* data[lo:hi] with 0 <= lo <= hi
PySlice(data, lo, hi) ==
    SubSeq(data, Min(lo, Len(data)) + 1, Min(hi, Len(data)))

\* a ^ b of two naturals
RECURSIVE Xor(_, _)
Xor(a, b) ==
    IF a = 0 THEN b
    ELSE IF b = 0 THEN a
    ELSE (((a % 2) + (b % 2)) % 2) + 2 * Xor(a \div 2, b \div 2)

\* a & b of an integer a and a natural b; a negative a is an infinite two's
\* complement numeral, which the flooring \div and the non-negative % of
\* TLA+ yield bit by bit.
RECURSIVE PyAnd(_, _)
PyAnd(a, b) ==
    IF b = 0 THEN 0
    ELSE ((a % 2) * (b % 2)) + 2 * PyAnd(a \div 2, b \div 2)

\* CRC16 = crcmod.predefined.mkCrcFun('modbus'), the CRC-16/MODBUS of the
\* library: polynomial 0x8005 bit-reversed (0xA001 = 40961), initial value
\* 0xFFFF, no final xor.  The bytes are taken in order; each is xored into
\* the low byte of the register, which is then shifted out in 8 steps.
RECURSIVE ShiftOut(_, _)
ShiftOut(crc, n) ==
    IF n = 0 THEN crc
    ELSE ShiftOut(IF crc % 2 = 1 THEN Xor(crc \div 2, 40961) ELSE crc \div 2,
                  n - 1)

\* The register after one more byte.
Update(crc, byte) == ShiftOut(Xor(crc, byte), 8)

CRC16(data) ==
    LET next == [c \in 0..65535 |-> [b \in 0..255 |-> Update(c, b)]]
        crc[i \in 0..Len(data)] ==
            IF i = 0 THEN 65535 ELSE next[crc[i - 1]][data[i]]
    IN  crc[Len(data)]

ByteOr0(data, i) == IF i < Len(data) THEN At(data, i) ELSE 0

\* The buffer record of the bytes data: what _check_packet and the decoders
\* read of them (a byte beyond the end is never read by the validator; the
\* record holds 0 for it).
Wire(data) ==
    Buffer(Len(data), ByteOr0(data, 0), ByteOr0(data, 1), ByteOr0(data, 2),
           CRC16(data) = 0,
           \A i \in 3..Min(21, Len(data) - 1) : At(data, i) < 128,
           ByteOr0(data, 5), ByteOr0(data, 36))

\* int.from_bytes(data[pos:pos + 2], byteorder='big', signed=True)
buf2int16_si(data, pos) ==
    LET b == PySlice(data, pos, pos + 2)
        unsigned == IF Len(b) = 0 THEN 0
                    ELSE IF Len(b) = 1 THEN b[1]
                    ELSE b[1] * 256 + b[2]
        modulus == IF Len(b) = 1 THEN 256 ELSE 65536
    IN  IF Len(b) > 0 /\ b[1] >= 128 THEN unsigned - modulus ELSE unsigned

\* d3 * 16777216 + d2 * 65536 + d1 * 256 + d0 of four bytes.  The sum may
\* exceed the integers TLC computes with (2^31 - 1), so it is held as
\* its base-256 digits, least significant first; IntOf is the integer of
\* a sum below 2^31.
Weighted(d3, d2, d1, d0) == <<d0, d1, d2, d3>>
IntOf(w) == w[4] * 16777216 + w[3] * 65536 + w[2] * 256 + w[1]

\* (a big-endian 32-bit decode)
buf2int32_us_big_endian(data, pos) ==
    Weighted(At(data, pos), At(data, pos + 1), At(data, pos + 2),
             At(data, pos + 3))

\* _buf2int32_us(data, pos)
buf2int32_us(data, pos) ==
    Weighted(At(data, pos + 2), At(data, pos + 3), At(data, pos),
             At(data, pos + 1))

\* self._errors
errors ==
    << "High temperature during charging (cells)",
       "Low temperature during charging (cells)",
       "Overcurrent during discharging",
       "Overcurrent during charging",
       "Main circuit failure",
       "Short circuit alarm",
       "Cell imbalance",
       "Current sensor error",
       "Battery overvoltage",
       "Battery undervoltage",
       "Cell overvoltage",
       "Cell undervoltage",
       "Voltage sensor error",
       "Temperature sensor error",
       "High temperature during discharging (cells)",
       "Low temperature during discharging (cells)" >>

\* sep.join(parts): a string is held as the sequence of the pieces it is
\* concatenated from; the empty string is << >>.
RECURSIVE Join(_, _)
Join(sep, parts) ==
    IF parts = << >> THEN << >>
    ELSE IF Len(parts) = 1 THEN parts
    ELSE <<Head(parts), sep>> \o Join(sep, Tail(parts))

\* [err for i, err in enumerate(table) if hvs_error & (1 << i)], from
\* index i on
RECURSIVE SelectedFrom(_, _, _)
SelectedFrom(table, hvs_error, i) ==
    IF i >= Len(table) THEN << >>
    ELSE (IF PyAnd(hvs_error, 2 ^ i) # 0 THEN <<At(table, i)>> ELSE << >>)
             \o SelectedFrom(table, hvs_error, i + 1)

Selected(table, hvs_error) == SelectedFrom(table, hvs_error, 0)

\* (an error string built from the magnitude of the signed error word)
hvs_error_string_of_magnitude(hvs_error) ==
    LET magnitude == IF hvs_error < 0 THEN 0 - hvs_error ELSE hvs_error
        joined == Join("; ", Selected(errors, magnitude))
    IN  IF joined = << >> THEN <<"No Error">> ELSE joined

\* self.hvs_error_string: "; ".join([...]) or "No Error"
hvs_error_string(hvs_error) ==
    LET joined == Join("; ", Selected(errors, hvs_error))
    IN  IF joined = << >> THEN <<"No Error">> ELSE joined

\* A Python number as the exact fraction num / den in lowest terms (den > 0);
\* the rounding of floating-point division is not modelled.
RECURSIVE GCD(_, _)
GCD(a, b) == IF b = 0 THEN a ELSE GCD(b, a % b)
Fraction(n, d) ==
    LET g == GCD(n, d)
    IN  IF n = 0 THEN [num |-> 0, den |-> 1]
        ELSE [num |-> n \div g, den |-> d \div g]

\* a / b: a result is [value |-> the quotient, exc |-> ""], a division by
\* zero [value |-> a, exc |-> "ZeroDivisionError"].
TrueDiv(a, b) ==
    IF b.num = 0 THEN [value |-> a, exc |-> "ZeroDivisionError"]
    ELSE [value |-> Fraction(a.num * b.den, a.den * b.num), exc |-> ""]

Times(k, a) == Fraction(k * a.num, a.den)

\* (an efficiency computed without the guard)
hvs_eta_unguarded(charge_total, discharge_total) ==
    TrueDiv(Times(100, discharge_total), charge_total)

\* if self.hvs_charge_total: self.hvs_eta = 100 * discharge / charge
\* else: self.hvs_eta = 0
hvs_eta(charge_total, discharge_total) ==
    IF charge_total.num # 0
    THEN TrueDiv(Times(100, discharge_total), charge_total)
    ELSE [value |-> Fraction(0, 1), exc |-> ""]

\* if tower["charge_total"]: tower["eta"] = 100 * discharge / charge
\* else: tower['eta'] = 0
tower_eta(charge_total, discharge_total) ==
    IF charge_total.num # 0
    THEN TrueDiv(Times(100, discharge_total), charge_total)
    ELSE [value |-> Fraction(0, 1), exc |-> ""]

\* The fields of _parse_packet1 that the error word and the two energy
\* totals decide (data holds at least 45 bytes).
status_fields(data) ==
    LET hvs_error == buf2int16_si(data, 29)
        hvs_charge_total ==
            TrueDiv(Fraction(IntOf(buf2int32_us(data, 37)), 1),
                    Fraction(10, 1)).value
        hvs_discharge_total ==
            TrueDiv(Fraction(IntOf(buf2int32_us(data, 41)), 1),
                    Fraction(10, 1)).value
        eta == hvs_eta(hvs_charge_total, hvs_discharge_total)
    IN  [hvs_error           |-> hvs_error,
         hvs_error_string    |-> hvs_error_string(hvs_error),
         hvs_charge_total    |-> hvs_charge_total,
         hvs_discharge_total |-> hvs_discharge_total,
         hvs_eta             |-> eta.value,
         exc                 |-> eta.exc]

\* The energy totals and the efficiency of a tower in _parse_packet5 (data
\* holds at least 41 bytes).
tower_totals(data) ==
    LET charge_total == Fraction(IntOf(buf2int32_us(data, 33)), 1)
        discharge_total == Fraction(IntOf(buf2int32_us(data, 37)), 1)
        eta == tower_eta(charge_total, discharge_total)
    IN  [charge_total    |-> charge_total,
         discharge_total |-> discharge_total,
         eta             |-> eta.value,
         exc             |-> eta.exc]

\* ---------------------------------------------------------------- snapshot
\* The fields of the instance that the decoders below assign and that decide
\* the dialogue: a record with the source's attribute names.  A tower is
\* [cell_voltages |-> n, cell_temperatures |-> m], the lengths of its lists.
InitialSnapshot ==
    [hvs_batt_type_from_serial  |-> "",
     hvs_modules                |-> 0,
     hvs_towers                 |-> 0,
     hvs_module_cell_count      |-> 0,
     hvs_module_cell_temp_count |-> 0,
     hvs_num_cells              |-> 0,
     hvs_num_temps              |-> 0,
     tower_attributes           |-> << >>]

\* A decoder's result: the snapshot it leaves and the exception it raises
\* ("" when it returns).  Indexing data[i] with i >= len(data) raises
\* IndexError; slices never raise.
Decoded(s, exc) == [snapshot |-> s, exc |-> exc]

\* batt_type_map: battery type -> cells and temperatures per module
CellCount(batt_type) ==
    IF batt_type = 1 THEN 16 ELSE IF batt_type = 2 THEN 32 ELSE 0
TempCount(batt_type) ==
    IF batt_type = 1 THEN 8 ELSE IF batt_type = 2 THEN 12 ELSE 0

HintOf(hardware_type, old) ==
    IF hardware_type = 51 THEN "HVS"
    ELSE IF hardware_type \in {49, 50} THEN "LVS"
    ELSE old

parse_packet0(data, s) ==
    IF ~data.ascii THEN Decoded(s, "UnicodeDecodeError")
    ELSE IF data.len < 6 THEN Decoded(s, "IndexError")
    ELSE LET s1 == [s EXCEPT !.hvs_batt_type_from_serial = HintOf(data.b5, @)]
         IN  IF data.len < 37 THEN Decoded(s1, "IndexError")
             ELSE LET s2 == [s1 EXCEPT !.hvs_modules = data.b36 % 16,
                                       !.hvs_towers  = data.b36 \div 16]
                  IN  IF data.len < 39 THEN Decoded(s2, "IndexError")
                      ELSE Decoded(s2, "")

\* The status fields are not part of the modelled snapshot; the decoder
\* indexes data[31], data[32] and, in _buf2int32_us, data[37..44].
parse_packet1(data, s) ==
    IF data.len < 45 THEN Decoded(s, "IndexError") ELSE Decoded(s, "")

\* (a battery-info decoder without the final clamping)
parse_packet2_unclamped(data, s) ==
    IF data.len < 6 THEN Decoded(s, "IndexError")
    ELSE LET lvs   == s.hvs_batt_type_from_serial = "LVS"
             cells == IF lvs THEN 8 ELSE CellCount(data.b5)
             temps == IF lvs THEN 4 ELSE TempCount(data.b5)
         IN  Decoded([s EXCEPT
                 !.hvs_module_cell_count      = cells,
                 !.hvs_module_cell_temp_count = temps,
                 !.hvs_num_cells = s.hvs_modules * cells,
                 !.hvs_num_temps = s.hvs_modules * temps], "")

parse_packet2(data, s) ==
    IF data.len < 6 THEN Decoded(s, "IndexError")
    ELSE LET lvs   == s.hvs_batt_type_from_serial = "LVS"
             cells == IF lvs THEN 8 ELSE CellCount(data.b5)
             temps == IF lvs THEN 4 ELSE TempCount(data.b5)
         IN  Decoded([s EXCEPT
                 !.hvs_module_cell_count      = cells,
                 !.hvs_module_cell_temp_count = temps,
                 !.hvs_num_cells = Min(s.hvs_modules * cells, MAX_CELLS),
                 !.hvs_num_temps = Min(s.hvs_modules * temps, MAX_TEMPS)], "")

\* tower = self.tower_attributes[tower_number]
HasTower(s, tower_number) == tower_number + 1 <= Len(s.tower_attributes)

Extend(s, tower_number, field, n) ==
    [s EXCEPT !.tower_attributes[tower_number + 1][field] = @ + n]
Assign(s, tower_number, field, n) ==
    [s EXCEPT !.tower_attributes[tower_number + 1][field] = n]

\* Reads data[9..16], data[17:33] (int('', 16) raises ValueError on an empty
\* slice), data[33..40] and data[59], data[60]; then assigns 16 voltages.
parse_packet5(data, s, tower_number) ==
    IF ~HasTower(s, tower_number) THEN Decoded(s, "IndexError")
    ELSE IF data.len < 17 THEN Decoded(s, "IndexError")
    ELSE IF data.len < 18 THEN Decoded(s, "ValueError")
    ELSE IF data.len < 61 THEN Decoded(s, "IndexError")
    ELSE Decoded(Assign(s, tower_number, "cell_voltages", RangeLen(16)), "")

parse_packet6(data, s, tower_number) ==
    IF ~HasTower(s, tower_number) THEN Decoded(s, "IndexError")
    ELSE LET max_cells == Min(s.hvs_num_cells - 16, 64)
         IN  Decoded(Extend(s, tower_number, "cell_voltages",
                            RangeLen(max_cells)), "")

parse_packet7(data, s, tower_number) ==
    IF ~HasTower(s, tower_number) THEN Decoded(s, "IndexError")
    ELSE LET max_cells == Min(s.hvs_num_cells - 80, 48)
             max_temps == Min(s.hvs_num_temps, 30)
             s1 == Extend(s, tower_number, "cell_voltages", RangeLen(max_cells))
         IN  Decoded(Assign(s1, tower_number, "cell_temperatures",
                            PySliceLen(data.len, 103, 103 + max_temps)), "")

parse_packet8(data, s, tower_number) ==
    IF ~HasTower(s, tower_number) THEN Decoded(s, "IndexError")
    ELSE LET max_temps == Min(s.hvs_num_temps - 30, 34)
         IN  Decoded(Extend(s, tower_number, "cell_temperatures",
                            PySliceLen(data.len, 5, 5 + max_temps)), "")

parse_packet12(data, s, tower_number) ==
    IF ~HasTower(s, tower_number) THEN Decoded(s, "IndexError")
    ELSE Decoded(Extend(s, tower_number, "cell_voltages", RangeLen(16)), "")

parse_packet13(data, s, tower_number) ==
    IF ~HasTower(s, tower_number) THEN Decoded(s, "IndexError")
    ELSE LET max_cells == Min(s.hvs_num_cells - 144, 16)
         IN  Decoded(Extend(s, tower_number, "cell_voltages",
                            RangeLen(max_cells)), "")

\* (a tower list without the minimum of one tower)
AllocateTowers_no_minimum(s) ==
    [s EXCEPT !.tower_attributes =
        [i \in 1..s.hvs_towers |->
            [cell_voltages |-> 0, cell_temperatures |-> 0]]]

\* _state2_send_request0, after the decoder: one empty tower per reported
\* tower, at least one.
AllocateTowers(s) ==
    [s EXCEPT !.tower_attributes =
        [i \in 1..(IF s.hvs_towers = 0 THEN 1 ELSE s.hvs_towers) |->
            [cell_voltages |-> 0, cell_temperatures |-> 0]]]

\* ------------------------------------------------------------------- state
VARIABLES
    state,              \* self._state
    current_tower,      \* self.current_tower
    state_action_list,  \* self.state_action_list
    reader,             \* self._reader: None or the id of a connection
    writer,             \* self._writer: None or the id of a connection
    snapshot,           \* the decoded fields (InitialSnapshot)
    pc,                 \* per task: the await its poll() is suspended at
    handler,            \* per task: the state handler its poll() is inside
    raised,             \* per task: the exception that left its last poll()
    opened,             \* per task: the connection its current poll() opened
    conns,              \* the transport: every connection opened, by id
    polls,              \* poll() invocations so far
    outstanding,        \* requests written since the last completed read
    wfail,              \* history: a write failed in this cycle
    ident_hw,           \* history: {hardware type of this cycle's identity reply}
    ev,                 \* history: the last step taken
    probe               \* a call of a pure function: its input and result

instance == <<state, current_tower, state_action_list, reader, writer, snapshot>>
tasks    == <<pc, handler, raised, opened>>
history  == <<outstanding, wfail, ident_hw, ev>>
vars     == <<instance, tasks, conns, polls, history, probe>>

\* The last step: its kind, the task that took it, the handler that task
\* was in and, for the end of a read, whether the handler's test
\* `data and self._check_packet(data)` passed (for the other steps, whether
\* the awaited operation succeeded).
Event(kind, t, h, ok) == [kind |-> kind, task |-> t, handler |-> h, ok |-> ok]

\* No call of a pure function is under way.
NoCall == [op |-> "", data |-> << >>, arg |-> 0, done |-> FALSE, result |-> 0]

\* The state the instance is in after __init__.
Constructed ==
    /\ state = 0
    /\ current_tower = 0
    /\ state_action_list = << >>
    /\ reader = None
    /\ writer = None
    /\ snapshot = InitialSnapshot
    /\ pc = [t \in Tasks |-> "idle"]
    /\ handler = [t \in Tasks |-> 0]
    /\ raised = [t \in Tasks |-> ""]
    /\ opened = [t \in Tasks |-> None]
    /\ conns = << >>
    /\ polls = 0
    /\ outstanding = 0
    /\ wfail = FALSE
    /\ ident_hw = {}
    /\ ev = Event("init", 0, 0, TRUE)

Init == Constructed /\ probe = NoCall

\* ------------------------------------------------------------ the poll loop
\* _state5_start_measurement and _state12_send_request10 write a request for
\* towers 0, 1 and 2 only; every other handler always calls _send_request.
Sends(s, tower) == ~(s \in {5, 12} /\ tower > 2)

\* The end of poll(): _close() closes the writer and awaits wait_closed(), or
\* does nothing without a writer, after which poll() sets _state = 0 and returns.
Exit(w, logged) ==
    [pc |-> IF w # None THEN "closing" ELSE "idle", state |-> 0,
     logged |-> logged, wrote |-> FALSE, closed |-> w # None]

\* (a loop that logs a state only when its handler has no request to write)
Go_unlogged(s, w, r, tower) ==
    IF s = 0 THEN Exit(w, FALSE)
    ELSE IF s \notin 2..15 THEN Exit(w, TRUE)
    ELSE IF Sends(s, tower) /\ w # None
         THEN [pc |-> "draining", state |-> s, logged |-> FALSE,
               wrote |-> TRUE, closed |-> FALSE]
    ELSE IF r # None
         THEN [pc |-> "reading", state |-> s, logged |-> TRUE,
               wrote |-> FALSE, closed |-> FALSE]
    ELSE Exit(w, TRUE)

\* (a loop that logs the state before it tests it, so that 0 is logged too)
Go_logs_terminal(s, w, r, tower) ==
    IF s = 0 THEN Exit(w, TRUE)
    ELSE IF s \notin 2..15 THEN Exit(w, TRUE)
    ELSE IF Sends(s, tower) /\ w # None
         THEN [pc |-> "draining", state |-> s, logged |-> TRUE,
               wrote |-> TRUE, closed |-> FALSE]
    ELSE IF r # None
         THEN [pc |-> "reading", state |-> s, logged |-> TRUE,
               wrote |-> FALSE, closed |-> FALSE]
    ELSE Exit(w, TRUE)

\* From the `while self._state != 0` test with _state = s to the next await:
\* the state is logged, its handler is entered and either writes its request
\* (awaiting drain), or goes on to read (awaiting the reply), or, with no
\* connection, gets no data, sets _state = 0 and leaves the loop.
Go(s, w, r, tower) ==
    IF s = 0 THEN Exit(w, FALSE)
    ELSE IF s \notin 2..15 THEN Exit(w, TRUE)
    ELSE IF Sends(s, tower) /\ w # None
         THEN [pc |-> "draining", state |-> s, logged |-> TRUE,
               wrote |-> TRUE, closed |-> FALSE]
    ELSE IF r # None
         THEN [pc |-> "reading", state |-> s, logged |-> TRUE,
               wrote |-> FALSE, closed |-> FALSE]
    ELSE Exit(w, TRUE)

\* The coroutine of task t runs on from the loop test: s is _state there, w
\* and r the handles, cs the connections and out the requests outstanding.
Resume(t, s, w, r, tower, cs, out) ==
    LET g == Go(s, w, r, tower)
    IN  /\ state' = g.state
        /\ state_action_list' =
              IF g.logged THEN Append(state_action_list, s)
              ELSE state_action_list
        /\ pc' = [pc EXCEPT ![t] = g.pc]
        /\ handler' = [handler EXCEPT ![t] = IF g.logged THEN s ELSE @]
        /\ conns' = IF g.closed THEN [cs EXCEPT ![w] = "closed"] ELSE cs
        /\ outstanding' = IF g.wrote THEN out + 1 ELSE out

\* ----------------------------------------------------------------- actions
\* (a poll() whose entry guard resets the cycle instead of returning)
poll_unguarded(t) ==
    /\ pc[t] = "idle"
    /\ polls < MaxPolls
    /\ polls' = polls + 1
    /\ state' = 1
    /\ current_tower' = 0
    /\ state_action_list' = << >>
    /\ pc' = [pc EXCEPT ![t] = "connecting"]
    /\ raised' = [raised EXCEPT ![t] = ""]
    /\ opened' = [opened EXCEPT ![t] = None]
    /\ outstanding' = 0
    /\ wfail' = FALSE
    /\ ident_hw' = {}
    /\ ev' = Event("accepted", t, 0, TRUE)
    /\ UNCHANGED <<reader, writer, snapshot, handler, conns>>
    /\ UNCHANGED probe

\* poll(), lines 520-529: the entry guard, then the start of a cycle up to
\* the await of asyncio.open_connection.
poll(t) ==
    /\ pc[t] = "idle"
    /\ polls < MaxPolls
    /\ polls' = polls + 1
    /\ IF state # 0
       THEN /\ ev' = Event("rejected", t, 0, FALSE)
            /\ UNCHANGED <<instance, tasks, conns, outstanding, wfail,
                           ident_hw>>
       ELSE /\ state' = 1
            /\ current_tower' = 0
            /\ state_action_list' = << >>
            /\ pc' = [pc EXCEPT ![t] = "connecting"]
            /\ raised' = [raised EXCEPT ![t] = ""]
            /\ opened' = [opened EXCEPT ![t] = None]
            /\ outstanding' = 0
            /\ wfail' = FALSE
            /\ ident_hw' = {}
            /\ ev' = Event("accepted", t, 0, TRUE)
            /\ UNCHANGED <<reader, writer, snapshot, handler, conns>>
    /\ UNCHANGED probe

\* _connect(): open_connection returns; the handles are set, _state = 2 and
\* the loop starts.
connect_ok(t) ==
    /\ pc[t] = "connecting"
    /\ LET c == Len(conns) + 1
       IN  /\ reader' = c
           /\ writer' = c
           /\ opened' = [opened EXCEPT ![t] = c]
           /\ Resume(t, 2, c, c, current_tower, Append(conns, "open"),
                     outstanding)
    /\ ev' = Event("connected", t, 0, TRUE)
    /\ UNCHANGED <<current_tower, snapshot, raised, polls, wfail, ident_hw>>
    /\ UNCHANGED probe

\* _connect(): open_connection raises TimeoutError or OSError, which is
\* re-raised as BYDHVSTimeoutError / BYDHVSConnectionError and leaves poll().
connect_failed(t) ==
    /\ pc[t] = "connecting"
    /\ \E e \in {"BYDHVSTimeoutError", "BYDHVSConnectionError"} :
          raised' = [raised EXCEPT ![t] = e]
    /\ pc' = [pc EXCEPT ![t] = "idle"]
    /\ ev' = Event("connect_failed", t, 0, FALSE)
    /\ UNCHANGED <<instance, handler, opened, conns, polls, outstanding,
                   wfail, ident_hw>>
    /\ UNCHANGED probe

\* _send_request(): drain() returns, or raises and _state is set to 0; in both
\* cases the handler goes on to _receive_response(), which awaits the read or,
\* without a reader, returns None (the handler then sets _state = 0).
drained(t) ==
    /\ pc[t] = "draining"
    /\ \E failed \in BOOLEAN :
          LET ok == ~failed
              s1 == IF ok THEN state ELSE 0
          IN  /\ wfail' = (wfail \/ failed)
              /\ ev' = Event("drained", t, handler[t], ok)
              /\ IF reader # None
                 THEN /\ state' = s1
                      /\ pc' = [pc EXCEPT ![t] = "reading"]
                      /\ UNCHANGED <<state_action_list, handler, conns,
                                     outstanding>>
                 ELSE Resume(t, 0, writer, reader, current_tower, conns,
                             outstanding)
    /\ UNCHANGED <<current_tower, reader, writer, snapshot, raised, opened,
                   polls, ident_hw>>
    /\ UNCHANGED probe

\* _receive_response(): the read times out or fails (TimeoutError,
\* IncompleteReadError, ConnectionResetError, OSError): _state = 0, no data.
read_failed(t) ==
    /\ pc[t] = "reading"
    /\ Resume(t, 0, writer, reader, current_tower, conns, 0)
    /\ ev' = Event("read_failed", t, handler[t], FALSE)
    /\ UNCHANGED <<current_tower, reader, writer, snapshot, raised, opened,
                   polls, wfail, ident_hw>>
    /\ UNCHANGED probe

\* The decoder the handler of state h applies to a validated reply.
Decode(h, data, s, tower) ==
    CASE h = 2  -> parse_packet0(data, s)
      [] h = 3  -> parse_packet1(data, s)
      [] h = 4  -> parse_packet2(data, s)
      [] h = 7  -> parse_packet5(data, s, tower)
      [] h = 8  -> parse_packet6(data, s, tower)
      [] h = 9  -> parse_packet7(data, s, tower)
      [] h = 10 -> parse_packet8(data, s, tower)
      [] h = 14 -> parse_packet12(data, s, tower)
      [] h = 15 -> parse_packet13(data, s, tower)
      [] OTHER  -> Decoded(s, "")

\* (a tower loop that runs once more than there are towers)
NextTower_one_more(s, tower) ==
    IF tower + 1 <= s.hvs_towers
    THEN [state |-> 5, tower |-> tower + 1]
    ELSE [state |-> 0, tower |-> tower]

\* States 10 and 15: the next tower, or the end of the cycle.
NextTower(s, tower) ==
    IF tower + 1 < s.hvs_towers
    THEN [state |-> 5, tower |-> tower + 1]
    ELSE [state |-> 0, tower |-> tower]

\* (a state 4 that always goes on to the measurement)
Transition_no_branch(h, s, tower) ==
    CASE h = 10 -> IF s.hvs_num_cells > 128
                   THEN [state |-> 11, tower |-> tower]
                   ELSE NextTower(s, tower)
      [] h = 15 -> NextTower(s, tower)
      [] OTHER  -> [state |-> h + 1, tower |-> tower]

\* (a state 10 that runs the second pass from 128 cells on)
Transition_from_128(h, s, tower) ==
    CASE h = 4  -> [state |-> IF s.hvs_num_cells > 0 /\ s.hvs_num_temps > 0
                              THEN 5 ELSE 0,
                    tower |-> tower]
      [] h = 10 -> IF s.hvs_num_cells >= 128
                   THEN [state |-> 11, tower |-> tower]
                   ELSE NextTower(s, tower)
      [] h = 15 -> NextTower(s, tower)
      [] OTHER  -> [state |-> h + 1, tower |-> tower]

\* The state the handler of state h sets after a validated, decoded reply.
Transition(h, s, tower) ==
    CASE h = 4  -> [state |-> IF s.hvs_num_cells > 0 /\ s.hvs_num_temps > 0
                              THEN 5 ELSE 0,
                    tower |-> tower]
      [] h = 10 -> IF s.hvs_num_cells > 128
                   THEN [state |-> 11, tower |-> tower]
                   ELSE NextTower(s, tower)
      [] h = 15 -> NextTower(s, tower)
      [] OTHER  -> [state |-> h + 1, tower |-> tower]

\* _receive_response() returns data (possibly b''), and the handler finishes:
\* an invalid reply sets _state = 0; a valid one is decoded (the exception of
\* a decoder leaves poll()), then handlers 5 and 12 await the settle delay and
\* the others set the next state.  B is what the device may send.
received(t, B) ==
    /\ pc[t] = "reading"
    /\ \E data \in B :
          LET h == handler[t]
              d == Decode(h, data, snapshot, current_tower)
              s2 == IF h = 2 THEN AllocateTowers(d.snapshot) ELSE d.snapshot
              n == Transition(h, s2, current_tower)
          IN  IF ~Accepted(data)
              THEN /\ Resume(t, 0, writer, reader, current_tower, conns, 0)
                   /\ ev' = Event("invalid", t, h, Accepted(data))
                   /\ UNCHANGED <<current_tower, snapshot, raised, ident_hw>>
              ELSE IF d.exc # ""
              THEN /\ snapshot' = d.snapshot
                   /\ raised' = [raised EXCEPT ![t] = d.exc]
                   /\ pc' = [pc EXCEPT ![t] = "idle"]
                   /\ outstanding' = 0
                   /\ ev' = Event("decoder_raised", t, h, Accepted(data))
                   /\ UNCHANGED <<state, current_tower, state_action_list,
                                  handler, conns, ident_hw>>
              ELSE IF h \in {5, 12}
              THEN /\ pc' = [pc EXCEPT ![t] = "sleeping"]
                   /\ outstanding' = 0
                   /\ ev' = Event("valid", t, h, Accepted(data))
                   /\ UNCHANGED <<state, current_tower, state_action_list,
                                  snapshot, handler, raised, conns, ident_hw>>
              ELSE /\ snapshot' = s2
                   /\ current_tower' = n.tower
                   /\ ident_hw' = IF h = 2 THEN {data.b5} ELSE ident_hw
                   /\ Resume(t, n.state, writer, reader, n.tower, conns, 0)
                   /\ ev' = Event("valid", t, h, Accepted(data))
                   /\ UNCHANGED raised
    /\ UNCHANGED <<reader, writer, opened, polls, wfail>>
    /\ UNCHANGED probe

\* (a settle delay after which the handler starts the measurement again)
slept_repeats(t) ==
    /\ pc[t] = "sleeping"
    /\ Resume(t, handler[t], writer, reader, current_tower, conns,
              outstanding)
    /\ ev' = Event("slept", t, handler[t], TRUE)
    /\ UNCHANGED <<current_tower, reader, writer, snapshot, raised, opened,
                   polls, wfail, ident_hw>>
    /\ UNCHANGED probe

\* asyncio.sleep(SLEEP_TIME) returns in handler 5 or 12: the next state.
slept(t) ==
    /\ pc[t] = "sleeping"
    /\ Resume(t, handler[t] + 1, writer, reader, current_tower, conns,
              outstanding)
    /\ ev' = Event("slept", t, handler[t], TRUE)
    /\ UNCHANGED <<current_tower, reader, writer, snapshot, raised, opened,
                   polls, wfail, ident_hw>>
    /\ UNCHANGED probe

\* _close(): wait_closed() returns; the handles are cleared, poll() sets
\* _state = 0 and returns.
closed(t) ==
    /\ pc[t] = "closing"
    /\ reader' = None
    /\ writer' = None
    /\ state' = 0
    /\ pc' = [pc EXCEPT ![t] = "idle"]
    /\ ev' = Event("closed", t, handler[t], TRUE)
    /\ UNCHANGED <<current_tower, state_action_list, snapshot, handler,
                   raised, opened, conns, polls, outstanding, wfail, ident_hw>>
    /\ UNCHANGED probe

\* get_data(): the snapshot and the state trace (the modelled keys).
get_data ==
    [modules                |-> snapshot.hvs_modules,
     module_cell_count      |-> snapshot.hvs_module_cell_count,
     module_cell_temp_count |-> snapshot.hvs_module_cell_temp_count,
     towers                 |-> snapshot.hvs_towers,
     battery_type_from_serial |-> snapshot.hvs_batt_type_from_serial,
     number_of_cells        |-> snapshot.hvs_num_cells,
     number_of_temperatures |-> snapshot.hvs_num_temps,
     tower_attributes       |-> snapshot.tower_attributes,
     state_action_list      |-> state_action_list]

Step(t, B) ==
    \/ poll(t)
    \/ connect_ok(t)
    \/ connect_failed(t)
    \/ drained(t)
    \/ read_failed(t)
    \/ received(t, B)
    \/ slept(t)
    \/ closed(t)

\* One caller, which awaits each poll() before it calls the next.
Next == Step(1, Buffers)

Spec == Init /\ [][Next]_vars

\* The same caller and a device with up to 15 towers.
NextTowers == Step(1, ManyTowerBuffers)

SpecTowers == Init /\ [][NextTowers]_vars

\* Several tasks call poll() on the same instance; they interleave at the
\* awaits.  With this device no cycle gets past state 4, so no task ever
\* awaits the settle delay of handlers 5 and 12.
StepConc(t) ==
    \/ poll(t)
    \/ connect_ok(t)
    \/ connect_failed(t)
    \/ drained(t)
    \/ read_failed(t)
    \/ received(t, ShortDialogueBuffers)
    \/ closed(t)

NextConc == \E t \in Tasks : StepConc(t)

SpecConc == Init /\ [][NextConc]_vars

\* ------------------------------------------------- calls of the pure functions
\* The validator and the field decoders read nothing but their argument, so
\* they are also checked call by call: the initial state holds one argument
\* and the one step applies the function to it.
\* A payload is up to max bytes: the header values 1, 3 and 16, and 0 and
\* 255.
PayloadBytes == {0, 1, 3, 16, 255}
Payloads(max) == UNION { [1..n -> PayloadBytes] : n \in 0..max }

\* A Modbus frame, as the device and the request table build it: the payload
\* and its CRC16, low byte first.
Frame(payload) ==
    LET crc == CRC16(payload)
    IN  payload \o <<crc % 256, crc \div 256>>

\* data with bit k inverted (bit 1 is the lowest bit of the first byte);
\* k = 0 inverts nothing.
Flip(data, k) ==
    IF k = 0 THEN data
    ELSE LET i == (k - 1) \div 8 + 1
         IN  [data EXCEPT ![i] = Xor(@, 2 ^ ((k - 1) % 8))]

\* A buffer of len bytes that holds the bytes of each <<offset, bytes>> of
\* parts and 0 elsewhere.
Packet(len, parts) ==
    [i \in 1..len |->
        IF \E p \in parts : i - 1 \in p[1]..(p[1] + Len(p[2]) - 1)
        THEN LET p == CHOOSE q \in parts :
                          i - 1 \in q[1]..(q[1] + Len(q[2]) - 1)
             IN  p[2][i - p[1]]
        ELSE 0]

\* The bytes of the error word: no bit, each single bit, bits 0 and 3, and
\* all bits of a byte.
ErrorHighBytes == {0, 1, 2, 4, 8, 16, 32, 64, 128, 255}
ErrorLowBytes == {0, 1, 2, 4, 8, 9, 16, 32, 64, 128, 255}
\* Energy totals on the wire (bytes pos .. pos + 3): 0, 150, 200, 1500, 2000
\* and 65536.
TotalWords ==
    { <<0, 0, 0, 0>>, <<0, 150, 0, 0>>, <<0, 200, 0, 0>>, <<5, 220, 0, 0>>,
      <<7, 208, 0, 0>>, <<0, 0, 0, 1>> }
\* The bytes of a 32-bit field, and the offsets it is read at.
FieldBytes == {0, 1, 127, 128, 255}
FieldOffsets == {0, 3}

Call(op, data, arg) ==
    [op |-> op, data |-> data, arg |-> arg, done |-> FALSE, result |-> 0]

\* Two frames of the request table, with the checksums the source gives
\* them: read_serial_number (010300000066c5e0) and start_measure_box_1
\* (0110055000020400018100f853).
RequestFrames ==
    { <<1, 3, 0, 0, 0, 102, 197, 224>>,
      <<1, 16, 5, 80, 0, 2, 4, 0, 1, 129, 0, 248, 83>> }

\* arg of a validator call: the bit of the frame that was inverted (0: none)
CheckPacketCalls(max) ==
    UNION { { Call("check_packet", Flip(Frame(p), k), k) :
                k \in 0..(8 * (Len(p) + 2)) } : p \in Payloads(max) }
        \cup { Call("check_packet", f, 0) : f \in RequestFrames }

StatusCalls ==
    { Call("parse_packet1",
           Packet(45, {<<29, <<hi, lo>>>>, <<37, c>>, <<41, d>>}), 0) :
        hi \in ErrorHighBytes, lo \in ErrorLowBytes,
        c \in TotalWords, d \in TotalWords }

TowerCalls ==
    { Call("parse_packet5", Packet(61, {<<33, c>>, <<37, d>>}), 0) :
        c \in TotalWords, d \in TotalWords }

FieldCalls ==
    { Call("buf2int32_us", Packet(pos + 4, {<<pos, <<b0, b1, b2, b3>>>>}), pos) :
        b0 \in FieldBytes, b1 \in FieldBytes, b2 \in FieldBytes,
        b3 \in FieldBytes, pos \in FieldOffsets }

Calls(max) ==
    CheckPacketCalls(max) \cup StatusCalls \cup TowerCalls \cup FieldCalls

\* The call op is pending / has returned result.
Pending(op) == probe.op = op /\ ~probe.done
Returned(result) == [probe EXCEPT !.done = TRUE, !.result = result]

call_check_packet ==
    /\ Pending("check_packet")
    /\ probe' = Returned(check_packet(Wire(probe.data)))
    /\ UNCHANGED <<instance, tasks, conns, polls, history>>

call_parse_packet1 ==
    /\ Pending("parse_packet1")
    /\ probe' = Returned(status_fields(probe.data))
    /\ UNCHANGED <<instance, tasks, conns, polls, history>>

call_parse_packet5 ==
    /\ Pending("parse_packet5")
    /\ probe' = Returned(tower_totals(probe.data))
    /\ UNCHANGED <<instance, tasks, conns, polls, history>>

call_buf2int32_us ==
    /\ Pending("buf2int32_us")
    /\ probe' = Returned(buf2int32_us(probe.data, probe.arg))
    /\ UNCHANGED <<instance, tasks, conns, polls, history>>

InitCalls == Constructed /\ probe \in Calls(MaxPayloadLen)

NextCalls ==
    \/ call_check_packet
    \/ call_parse_packet1
    \/ call_parse_packet5
    \/ call_buf2int32_us

SpecCalls == InitCalls /\ [][NextCalls]_vars

\* ================================================================== claims
ReadEnded(t) ==
    /\ pc[t] = "reading"
    /\ ev'.task = t
    /\ ev'.kind \in {"read_failed", "invalid", "valid", "decoder_raised"}

\* C1: a poll() invoked while _state is non-zero changes nothing: not the
\* state, the tower index, the trace, the handles or the snapshot, no task
\* starts a cycle, no connection is opened and no request is written.
C1_RejectedPollIsNoOp ==
    [][(polls' = polls + 1 /\ state # 0) =>
          UNCHANGED <<instance, tasks, conns, outstanding>>]_vars

\* A poll() was rejected while another task's cycle was in progress.
C1_Witness ==
    /\ ev.kind = "rejected"
    /\ state # 0
    /\ \E t \in Tasks : pc[t] \in {"draining", "reading"}

\* C2: when no poll() is running any more, every connection a cycle opened
\* is closed and the reader and writer handles are cleared.
C2_ConnectionClosedOnExit ==
    \A t \in Tasks :
        (pc[t] = "idle" /\ opened[t] # None) =>
            /\ conns[opened[t]] = "closed"
            /\ reader = None
            /\ writer = None

\* C3: after a failed attempt to open the connection the machine is in
\* state 0 (so that the entry guard accepts the next poll()).
C3_ConnectFailureGoesToIdle ==
    ev.kind = "connect_failed" => state = 0

\* C4: no poll() is left by an exception of a transport fault.
C4_NoTransportExceptionEscapes ==
    \A t \in Tasks :
        raised[t] \notin {"BYDHVSTimeoutError", "BYDHVSConnectionError"}

\* C5: when the read of a dialogue state ends without a reply (a read fault),
\* with an empty reply or with one the packet validator rejects, the machine
\* goes to state 0, the trace is unchanged and ends with the state the reply
\* was awaited in, and the snapshot is unchanged (no decoder ran).
C5_InvalidReplyEndsCycle ==
    [][\A t \in Tasks :
          (ReadEnded(t) /\ ~ev'.ok) =>
              /\ handler[t] \in 2..15
              /\ state' = 0
              /\ state_action_list' = state_action_list
              /\ Last(state_action_list') = handler[t]
              /\ snapshot' = snapshot]_vars

\* An empty or rejected reply ended a cycle in state 9,
\* after the decoders of states 2, 3, 4, 7 and 8 had run.
C5_Witness ==
    /\ ev.kind = "invalid"
    /\ ev.handler = 9
    /\ state = 0
    /\ state_action_list = <<2, 3, 4, 5, 6, 7, 8, 9>>

\* C6: once a write has failed in a cycle, the machine is in state 0 and
\* stays there (no decoder, no further dialogue state, no further request).
C6_WriteFailureEndsCycle ==
    wfail => state = 0

\* C7: at most one poll() is in progress on the instance.
C7_AtMostOneCycle ==
    Cardinality({t \in Tasks : pc[t] # "idle"}) <= 1

\* C8: when a poll() that opened its connection has finished, its cycle has
\* terminated in state 0.
C8_FinishedCycleIsIdle ==
    \A t \in Tasks :
        (pc[t] = "idle" /\ opened[t] # None) => state = 0

\* C9: after this cycle's identity reply with a hardware type other than 49,
\* 50 and 51, the battery-type hint is unset, whatever the earlier cycles
\* received (each of them having ended by closing its connection).
C9_HintUnsetForUnknownHardware ==
    (/\ ident_hw # {}
     /\ ident_hw \cap {49, 50, 51} = {}
     /\ \A c \in 1..Len(conns) : c = writer \/ conns[c] = "closed") =>
        snapshot.hvs_batt_type_from_serial = ""

\* C10 as stated: every state the machine enters is appended to the trace
\* that get_data exposes.
C10_EveryStateIsLogged ==
    [][state' # state =>
          get_data'.state_action_list =
              Append(get_data.state_action_list, state')]_vars

\* C10 as amended: every dialogue state (2..15) the machine enters is
\* appended to the trace that get_data exposes, in the order entered; entering
\* state 1 empties the trace and entering state 0 leaves it as it is; nothing
\* else changes the trace.
C10_DialogueStatesAreLogged ==
    [][/\ (state' # state /\ state' \in 2..15) =>
            get_data'.state_action_list =
                Append(get_data.state_action_list, state')
       /\ (state' # state /\ state' = 1) => get_data'.state_action_list = << >>
       /\ (state' # state /\ state' = 0) =>
            get_data'.state_action_list = get_data.state_action_list
       /\ state' = state =>
            get_data'.state_action_list = get_data.state_action_list]_vars

\* A cycle over one tower has finished with the complete first-pass trace.
C10_Witness ==
    /\ pc[1] = "idle"
    /\ state = 0
    /\ get_data.state_action_list = <<2, 3, 4, 5, 6, 7, 8, 9, 10>>

\* The states of one tower's cell-block dialogue: one pass, or two passes
\* when the total cell count is above 128.
Block(two) ==
    IF two THEN <<5, 6, 7, 8, 9, 10, 11, 12, 13, 14, 15>>
    ELSE <<5, 6, 7, 8, 9, 10>>

RECURSIVE Blocks(_, _)
Blocks(n, two) ==
    IF n = 0 THEN << >> ELSE Block(two) \o Blocks(n - 1, two)

\* The trace of a complete cycle over n towers.
FullTrace(n, two) == <<2, 3, 4>> \o Blocks(n, two)

IsPrefix(s, t) ==
    Len(s) <= Len(t) /\ \A i \in 1..Len(s) : s[i] = t[i]

\* How many times the trace enters state 5 (a tower's dialogue starts).
Starts(trace) == Cardinality({i \in 1..Len(trace) : trace[i] = 5})

\* N = max(device-reported tower count, 1)
TowerTotal == IF snapshot.hvs_towers > 1 THEN snapshot.hvs_towers ELSE 1

TwoPasses == snapshot.hvs_num_cells > 128

\* C11: once a cycle has entered the cell-block dialogue (positive cell and
\* temperature counts), its trace is the start of 2,3,4 followed by one block
\* per tower, the k-th block running with tower index k-1; and when a valid
\* reply in state 10 or 15 ends the cycle, the trace is exactly that of all N
\* towers, N = max(tower count, 1).
C11_EachTowerOnceInOrder ==
    /\ [](Len(state_action_list) >= 4 =>
            /\ IsPrefix(state_action_list, FullTrace(TowerTotal, TwoPasses))
            /\ current_tower = Starts(state_action_list) - 1)
    /\ [][(ev'.kind = "valid" /\ ev'.handler \in {10, 15} /\ state' = 0) =>
            state_action_list' = FullTrace(TowerTotal', TwoPasses')]_vars

\* A cycle over 15 towers of 160 cells has completed: 15 blocks of two passes.
C11_Witness ==
    /\ pc[1] = "idle"
    /\ state = 0
    /\ ev.kind = "closed"
    /\ snapshot.hvs_towers = 15
    /\ current_tower = 14
    /\ state_action_list = FullTrace(15, TRUE)

\* C12: no tower's cell-temperature sequence has more than 64 entries (here:
\* in a cycle whose writes have all succeeded).
C12_TemperaturesAtMost64 ==
    ~wfail =>
        \A i \in 1..Len(snapshot.tower_attributes) :
            snapshot.tower_attributes[i].cell_temperatures <= MAX_TEMPS

TowerScoped == {7, 8, 9, 10, 14, 15}

Occurrences(trace, s) == Cardinality({i \in 1..Len(trace) : trace[i] = s})

\* C13: the tower and module counts change only when the handler of state 2
\* has decoded its reply and the total cell and temperature counts only when
\* the handler of state 4 has, each of these states being entered at most
\* once in a cycle; and while a tower-scoped state (7..10, 14, 15) awaits the
\* reply it will decode, the tower index is a valid index into the tower
\* list, whose length is max(tower count, 1).
C13_CountsFixedAndTowerIndexValid ==
    /\ [][/\ (\/ snapshot'.hvs_towers # snapshot.hvs_towers
              \/ snapshot'.hvs_modules # snapshot.hvs_modules
              \/ Len(snapshot'.tower_attributes) # Len(snapshot.tower_attributes))
             => (ev'.kind \in {"valid", "decoder_raised"} /\ ev'.handler = 2)
          /\ (\/ snapshot'.hvs_num_cells # snapshot.hvs_num_cells
              \/ snapshot'.hvs_num_temps # snapshot.hvs_num_temps)
             => (ev'.kind \in {"valid", "decoder_raised"} /\ ev'.handler = 4)
         ]_vars
    /\ [](/\ Occurrences(state_action_list, 2) <= 1
          /\ Occurrences(state_action_list, 4) <= 1)
    /\ [](\A t \in Tasks :
            (pc[t] = "reading" /\ handler[t] \in TowerScoped) =>
                /\ Len(snapshot.tower_attributes) = TowerTotal
                /\ current_tower \in 0..(Len(snapshot.tower_attributes) - 1))

\* The last of 15 towers awaits the reply of state 15 in the second cycle on
\* the instance.
C13_Witness ==
    /\ pc[1] = "reading"
    /\ handler[1] = 15
    /\ current_tower = 14
    /\ Len(snapshot.tower_attributes) = 15
    /\ polls = 2

\* C14: whenever a handler awaits a reply (in a cycle whose writes have all
\* succeeded), exactly one request has been written since the previous read
\* ended.
C14_OneRequestPerReply ==
    \A t \in Tasks : (pc[t] = "reading" /\ ~wfail) => outstanding = 1

\* C15: no decoder reads past the end of a buffer the validator accepted: no
\* poll() is left by the IndexError of data[i], nor by the ValueError of
\* int('', 16) on an empty slice (here: in a cycle whose writes have all
\* succeeded).
C15_DecodersStayInsideBuffer ==
    ~wfail => \A t \in Tasks : raised[t] \notin {"IndexError", "ValueError"}

\* C16: no tower's cell-voltage sequence has more entries than the total cell
\* count (here: in a cycle whose writes have all succeeded).
C16_VoltagesAtMostCellCount ==
    ~wfail =>
        \A i \in 1..Len(snapshot.tower_attributes) :
            snapshot.tower_attributes[i].cell_voltages <= snapshot.hvs_num_cells

\* C17: when the handler of state 4 has decoded a valid battery-info reply,
\* the machine enters state 5 if the total cell count and the total
\* temperature count are both positive, and otherwise goes to state 0 with
\* the trace unchanged and ending at 4; and state 5 (whose handler writes the
\* measurement request) is in the trace only with both counts positive.
C17_MeasurementIffCounts ==
    /\ [][(ev'.kind = "valid" /\ ev'.handler = 4) =>
             IF snapshot'.hvs_num_cells > 0 /\ snapshot'.hvs_num_temps > 0
             THEN /\ state' = 5
                  /\ state_action_list' = Append(state_action_list, 5)
             ELSE /\ state' = 0
                  /\ state_action_list' = state_action_list
                  /\ Last(state_action_list') = 4
                  /\ \A t \in Tasks : pc'[t] # "draining"]_vars
    /\ [](Occurrences(state_action_list, 5) > 0 =>
             (snapshot.hvs_num_cells > 0 /\ snapshot.hvs_num_temps > 0))

\* A battery-info reply with an unknown battery type has ended the cycle.
C17_Witness ==
    /\ ev.kind = "valid"
    /\ ev.handler = 4
    /\ state = 0
    /\ snapshot.hvs_modules > 0
    /\ snapshot.hvs_num_cells = 0
    /\ state_action_list = <<2, 3, 4>>

\* The step of states 10 and 15 to the next tower or to the end of the cycle.
ToNextTowerOrEnd ==
    \/ /\ current_tower + 1 < snapshot.hvs_towers
       /\ state' = 5
       /\ current_tower' = current_tower + 1
    \/ /\ ~(current_tower + 1 < snapshot.hvs_towers)
       /\ state' = 0
       /\ current_tower' = current_tower

\* C18: after a valid reply in state 10 the machine enters state 11 if and
\* only if the clamped total cell count is above 128, and otherwise goes to
\* state 5 for the next tower or ends the cycle; after a valid reply in state
\* 15 it goes to state 5 for the next tower or ends the cycle; and the states
\* 11..15 are in a trace only with more than 128 cells.
C18_SecondPassIffAbove128 ==
    /\ [][/\ (ev'.kind = "valid" /\ ev'.handler = 10) =>
                IF snapshot'.hvs_num_cells > 128
                THEN state' = 11 /\ current_tower' = current_tower
                ELSE ToNextTowerOrEnd
          /\ (ev'.kind = "valid" /\ ev'.handler = 15) => ToNextTowerOrEnd
         ]_vars
    /\ [](\A i \in 1..Len(state_action_list) :
             state_action_list[i] \in 11..15 => snapshot.hvs_num_cells > 128)

\* With exactly 128 cells, state 10 of the first tower was followed by state
\* 5 of the second.
C18_Witness ==
    /\ ev.kind = "valid"
    /\ ev.handler = 10
    /\ snapshot.hvs_num_cells = 128
    /\ state = 5
    /\ current_tower = 1
    /\ state_action_list = <<2, 3, 4, 5, 6, 7, 8, 9, 10, 5>>

\* The transitions between dialogue states.
TableStep(a, b) ==
    \/ a \in 2..14 /\ b = a + 1
    \/ a = 10 /\ b = 5
    \/ a = 15 /\ b = 5

\* C19: the state is in 0..15; the trace holds only values in 2..15 and each
\* pair of consecutive entries is a transition of the table; and the trace of
\* a cycle whose connection has opened starts with 2.
C19_StatesAndTraceFollowTable ==
    /\ state \in 0..15
    /\ \A i \in 1..Len(state_action_list) : state_action_list[i] \in 2..15
    /\ \A i \in 1..(Len(state_action_list) - 1) :
          TableStep(state_action_list[i], state_action_list[i + 1])
    /\ \A t \in Tasks :
          (pc[t] # "idle" /\ opened[t] # None) =>
              /\ state_action_list # << >>
              /\ state_action_list[1] = 2

\* A cycle over two towers of 160 cells has completed: its trace has the
\* steps 10 -> 11 and 15 -> 5.
C19_Witness ==
    /\ pc[1] = "idle"
    /\ state = 0
    /\ snapshot.hvs_towers = 2
    /\ state_action_list = FullTrace(2, TRUE)

\* C20: when the handler of state 4 has run the battery-info decoder, the
\* total cell count is min(modules * cells per module, 160) and the total
\* temperature count is min(modules * temperatures per module, 64), with 8
\* cells and 4 temperatures per module under the LVS hint and the battery
\* type's counts (16 / 8, 32 / 12 or none) otherwise.
C20_TotalsAreClamped ==
    [][(ev'.kind = "valid" /\ ev'.handler = 4) =>
          LET s == snapshot'
              per_module == <<s.hvs_module_cell_count,
                              s.hvs_module_cell_temp_count>>
          IN  /\ s.hvs_modules = snapshot.hvs_modules
              /\ s.hvs_num_cells =
                    Min(s.hvs_modules * s.hvs_module_cell_count, 160)
              /\ s.hvs_num_temps =
                    Min(s.hvs_modules * s.hvs_module_cell_temp_count, 64)
              /\ IF s.hvs_batt_type_from_serial = "LVS"
                 THEN per_module = <<8, 4>>
                 ELSE per_module \in {<<16, 8>>, <<32, 12>>, <<0, 0>>}]_vars

\* 10 modules of 32 cells and 12 temperatures: 320 and 120, clamped to 160
\* and 64.
C20_Witness ==
    /\ ev.kind = "valid"
    /\ ev.handler = 4
    /\ snapshot.hvs_modules = 10
    /\ snapshot.hvs_module_cell_count = 32
    /\ snapshot.hvs_num_cells = 160
    /\ snapshot.hvs_num_temps = 64

\* C21: the settle delay starts only when the handler of state 5 or 12 has
\* read a reply that the validator accepts, and it starts on every such
\* reply, before anything else is written or logged; a missing or invalid
\* reply and every other handler start none.  The delay ends once, and its
\* end is the step that sets state 6 or 13, logs it and writes its request.
C21_SettleDelayOnlyAfterValidStart ==
    [][\A t \in Tasks :
          /\ (pc'[t] = "sleeping" /\ pc[t] # "sleeping") =>
                /\ pc[t] = "reading"
                /\ handler[t] \in {5, 12}
                /\ ev' = Event("valid", t, handler[t], TRUE)
          /\ (ev'.kind = "valid" /\ ev'.task = t /\ ev'.handler \in {5, 12}) =>
                /\ pc'[t] = "sleeping"
                /\ outstanding' = 0
                /\ state_action_list' = state_action_list
          /\ (ev'.task = t /\ ev'.handler \in {5, 12}
                /\ ev'.kind \in {"invalid", "read_failed", "decoder_raised"}) =>
                pc'[t] # "sleeping"
          /\ (pc[t] = "sleeping" /\ pc'[t] # "sleeping") =>
                /\ ev' = Event("slept", t, handler[t], TRUE)
                /\ state' = handler[t] + 1
                /\ state' \in {6, 13}
                /\ Last(state_action_list') = state'
                /\ pc'[t] = "draining"
                /\ outstanding' = 1]_vars

\* The second settle delay of a cycle has ended: state 13 is set and its
\* request is written.
C21_Witness ==
    /\ ev = Event("slept", 1, 12, TRUE)
    /\ state = 13
    /\ pc[1] = "draining"
    /\ outstanding = 1

\* C22: the packet validator accepts a buffer if and only if it holds at
\* least 5 bytes, byte 0 is 1, byte 1 is 3 with byte 2 + 5 equal to the
\* length or byte 1 is 16 (whatever the length), and the CRC-16/MODBUS of
\* the whole buffer is 0.
C22_AcceptsIffWellFormed ==
    (probe.op = "check_packet" /\ probe.done) =>
        LET data == probe.data
        IN  probe.result =
               (/\ Len(data) >= 5
                /\ At(data, 0) = 1
                /\ \/ At(data, 1) = 3 /\ At(data, 2) + 5 = Len(data)
                   \/ At(data, 1) = 16
                /\ CRC16(data) = 0)

\* An accepted buffer of function code 16 whose byte 2 + 5 is not its
\* length.
C22_Witness ==
    /\ probe.op = "check_packet"
    /\ probe.done
    /\ probe.result = TRUE
    /\ At(probe.data, 1) = 16
    /\ At(probe.data, 2) + 5 # Len(probe.data)

\* The header tests of the validator pass on the frame data.
HeaderPasses(data) ==
    /\ Len(data) >= 5
    /\ At(data, 0) = 1
    /\ \/ At(data, 1) = 3 /\ At(data, 2) + 5 = Len(data)
       \/ At(data, 1) = 16

\* C23 (as stated): a buffer made by appending the correct CRC-16/MODBUS
\* checksum to any payload passes validation, and the same buffer with any
\* single bit of the payload or of the checksum inverted fails it.
C23_AnyFramedPayloadIsValid ==
    (probe.op = "check_packet" /\ probe.done) =>
        (probe.result = (probe.arg = 0))

\* C23 (amended): appending the correct checksum to any payload makes the
\* CRC of the whole buffer 0, so the buffer passes validation exactly when
\* its header passes the validator's length, unit and function-code tests;
\* with any single bit of the payload or of the checksum inverted the CRC is
\* not 0 and validation fails.
C23_FramedPayloadWithHeaderIsValid ==
    (probe.op = "check_packet" /\ probe.done) =>
        IF probe.arg = 0
        THEN /\ CRC16(probe.data) = 0
             /\ probe.result = HeaderPasses(probe.data)
        ELSE /\ CRC16(probe.data) # 0
             /\ probe.result = FALSE

\* A frame with a passing header and one inverted bit in its checksum has
\* been rejected.
C23_Witness ==
    /\ probe.op = "check_packet"
    /\ probe.done
    /\ probe.arg > 8 * (Len(probe.data) - 2)
    /\ HeaderPasses(probe.data)
    /\ probe.result = FALSE

\* Bit i of the 16-bit mask on the wire, and the string the mask stands for:
\* the names of its set bits in ascending order with "; " between them.
BitSet(mask, i) == (mask \div (2 ^ i)) % 2 = 1
NamesOf(mask) ==
    LET bits == {i \in 0..15 : BitSet(mask, i)}
        nth(k) == CHOOSE i \in bits : Cardinality({j \in bits : j < i}) = k - 1
    IN  [p \in 1..(2 * Cardinality(bits) - 1) |->
            IF p % 2 = 1 THEN errors[nth((p + 1) \div 2) + 1] ELSE "; "]

\* C24: for every 16-bit mask in bytes 29 and 30 of the status reply, read
\* as a signed value, the error string is "No Error" for mask 0 and
\* otherwise the names of the set bits from the 16-entry table, in
\* ascending bit order, joined by "; ".
C24_ErrorStringNamesSetBits ==
    (probe.op = "parse_packet1" /\ probe.done) =>
        LET mask == At(probe.data, 29) * 256 + At(probe.data, 30)
        IN  /\ Len(errors) = 16
            /\ probe.result.hvs_error =
                  IF mask >= 32768 THEN mask - 65536 ELSE mask
            /\ probe.result.hvs_error_string =
                  IF mask = 0 THEN <<"No Error">> ELSE NamesOf(mask)

\* The mask 0x8001, a negative error word: bits 0 and 15.
C24_Witness ==
    /\ probe.op = "parse_packet1"
    /\ probe.done
    /\ probe.result.hvs_error = 0 - 32767
    /\ probe.result.hvs_error_string =
          <<"High temperature during charging (cells)", "; ",
            "Low temperature during discharging (cells)">>

\* The unsigned value of the four bytes at offset pos, for the small totals
\* of the calls.
RawTotal(data, pos) ==
    At(data, pos + 2) * 16777216 + At(data, pos + 3) * 65536
        + At(data, pos) * 256 + At(data, pos + 1)

\* eta = 100 * discharge / charge, as an equation between fractions
IsEfficiency(eta, charge, discharge) ==
    eta.num * charge.num * discharge.den
        = 100 * discharge.num * charge.den * eta.den

\* C25: in the status decoder (pack level, totals in tenths) and in the first
\* cell-block decoder (tower level) a charge total of 0 gives efficiency 0
\* and no division fault; any other charge total gives 100 * discharge
\* total / charge total.
C25_EfficiencyIsZeroGuarded ==
    /\ (probe.op = "parse_packet1" /\ probe.done) =>
          LET r == probe.result
          IN  /\ r.exc = ""
              /\ r.hvs_charge_total.num * 10
                    = RawTotal(probe.data, 37) * r.hvs_charge_total.den
              /\ r.hvs_discharge_total.num * 10
                    = RawTotal(probe.data, 41) * r.hvs_discharge_total.den
              /\ IF RawTotal(probe.data, 37) = 0
                 THEN r.hvs_eta = Fraction(0, 1)
                 ELSE IsEfficiency(r.hvs_eta, r.hvs_charge_total,
                                   r.hvs_discharge_total)
    /\ (probe.op = "parse_packet5" /\ probe.done) =>
          LET r == probe.result
          IN  /\ r.exc = ""
              /\ r.charge_total = Fraction(RawTotal(probe.data, 33), 1)
              /\ r.discharge_total = Fraction(RawTotal(probe.data, 37), 1)
              /\ IF RawTotal(probe.data, 33) = 0
                 THEN r.eta = Fraction(0, 1)
                 ELSE IsEfficiency(r.eta, r.charge_total, r.discharge_total)

\* Charge 200 and discharge 150 at pack level (2000 and 1500 tenths on the
\* wire): efficiency 75.
C25_Witness ==
    /\ probe.op = "parse_packet1"
    /\ probe.done
    /\ probe.result.hvs_charge_total = Fraction(200, 1)
    /\ probe.result.hvs_discharge_total = Fraction(150, 1)
    /\ probe.result.hvs_eta = Fraction(75, 1)

\* C26: for the four bytes b0, b1, b2, b3 at the offset, the 32-bit decode
\* is b2 * 2^24 + b3 * 2^16 + b0 * 2^8 + b1: its base-256 digits are, from
\* the most significant, b2, b3, b0, b1, each in 0..255, so that the value
\* lies in 0..2^32 - 1; where the value is below 2^31 it is also compared as
\* an integer.
C26_Int32IsBytePermutation ==
    (probe.op = "buf2int32_us" /\ probe.done) =>
        LET pos == probe.arg
            b0 == At(probe.data, pos)
            b1 == At(probe.data, pos + 1)
            b2 == At(probe.data, pos + 2)
            b3 == At(probe.data, pos + 3)
            value == probe.result
        IN  /\ Len(value) = 4
            /\ value[4] = b2 /\ value[3] = b3 /\ value[2] = b0 /\ value[1] = b1
            /\ \A k \in 1..4 : value[k] \in 0..255
            /\ b2 < 128 =>
                  /\ IntOf(value)
                        = b2 * (2 ^ 24) + b3 * (2 ^ 16) + b0 * (2 ^ 8) + b1
                  /\ IntOf(value) \in 0..2147483647

\* The bytes 01 80 ff 00 at offset 3: 0xff000180.
C26_Witness ==
    /\ probe.op = "buf2int32_us"
    /\ probe.done
    /\ probe.arg = 3
    /\ SubSeq(probe.data, 4, 7) = <<1, 128, 255, 0>>
    /\ probe.result = <<128, 1, 0, 255>>

\* C27: the cleanup that ends the cycle of one task (the handles cleared,
\* the state set to 0) leaves the state and the handles as they are while
\* the cycle of another task is running, and once every poll() has returned
\* every connection that was opened is closed.
C27_CleanupTouchesOnlyItsCycle ==
    /\ [][\A t \in Tasks :
             (ev'.kind = "closed" /\ ev'.task = t) =>
                 \A u \in Tasks \ {t} :
                     pc[u] # "idle" =>
                         /\ state' = state
                         /\ (opened[u] # None /\ writer = opened[u]) =>
                                (reader' = reader /\ writer' = writer)]_vars
    /\ []((\A t \in Tasks : pc[t] = "idle") =>
              \A c \in 1..Len(conns) : conns[c] = "closed")

====
